---------------------------- MODULE Spec2Model ----------------------------
(***************************************************************************)
(* Model of the Student component (src/src/Component/Navbar.jsx): the      *)
(* reducer, handleSubmit (validation, derivation, dispatch), the two       *)
(* localStorage effects and the filteredSortedData view pipeline.          *)
(*                                                                         *)
(* Representation.  A JavaScript string is a sequence of one-character     *)
(* strings.  A JavaScript number is an integer count of hundredths (80 is  *)
(* 8000, 59.95 is 5995); numeric input is limited to two fraction digits.  *)
(* Labels that the program only compares whole (division, sortKey, action  *)
(* types, toast messages) are TLA+ strings.  Array indices are the 0-based *)
(* indices of the source; At reads one.                                    *)
(***************************************************************************)
EXTENDS Integers, Sequences, FiniteSets, TLC

VARIABLES name, age, marks, students, editIndex, searchTerm, sortKey,
          storage, queued, pc, toast, rows

vars == <<name, age, marks, students, editIndex, searchTerm, sortKey,
          storage, queued, pc, toast, rows>>

\* ------------------------------------------------------------- bounds
\* The students list is not grown beyond this many entries.
MaxStudents == 2
\* The longest list the view is derived from in SpecView.
MaxViewStudents == 3

\* ------------------------------------------------------------ strings
Upper == <<"A","B","C","D","E","F","G","H","I","J","K","L","M",
           "N","O","P","Q","R","S","T","U","V","W","X","Y","Z">>
Lower == <<"a","b","c","d","e","f","g","h","i","j","k","l","m",
           "n","o","p","q","r","s","t","u","v","w","x","y","z">>
Digits == <<"0","1","2","3","4","5","6","7","8","9">>

UpperSet == {Upper[i] : i \in DOMAIN Upper}
LowerSet == {Lower[i] : i \in DOMAIN Lower}
DigitSet == {Digits[i] : i \in DOMAIN Digits}
IsUpper(c) == c \in UpperSet
IsLower(c) == c \in LowerSet
IsDigit(c) == c \in DigitSet
DigitVal(c) == (CHOOSE i \in DOMAIN Digits : Digits[i] = c) - 1
LetterRank(c) ==
    IF IsUpper(c) THEN CHOOSE i \in DOMAIN Upper : Upper[i] = c
    ELSE CHOOSE i \in DOMAIN Lower : Lower[i] = c

\* String.prototype.toLowerCase
toLowerCase(s) ==
    [i \in DOMAIN s |-> IF IsUpper(s[i]) THEN Lower[LetterRank(s[i])] ELSE s[i]]

\* String.prototype.includes
includes(hay, needle) ==
    \E k \in 0..(Len(hay) - Len(needle)) :
        SubSeq(hay, k + 1, k + Len(needle)) = needle

\* String.prototype.trim (the only white space of the model is " ")
trim(s) ==
    LET inked == {i \in DOMAIN s : s[i] # " "}
    IN IF inked = {} THEN <<>>
       ELSE SubSeq(s, CHOOSE i \in inked : \A j \in inked : i <= j,
                      CHOOSE i \in inked : \A j \in inked : i >= j)

\* nameRegex = /^[A-Za-z ]+$/ and its test
nameRegexTest(s) ==
    /\ Len(s) >= 1
    /\ \A i \in DOMAIN s : IsUpper(s[i]) \/ IsLower(s[i]) \/ s[i] = " "

\* Lexicographic comparison of two integer sequences: -1, 0 or 1.
RECURSIVE LexCompare(_, _)
LexCompare(a, b) ==
    IF a = <<>> /\ b = <<>> THEN 0
    ELSE IF a = <<>> THEN -1
    ELSE IF b = <<>> THEN 1
    ELSE IF Head(a) < Head(b) THEN -1
    ELSE IF Head(a) > Head(b) THEN 1
    ELSE LexCompare(Tail(a), Tail(b))

\* Collation weights of the default (root) collation that localeCompare uses:
\* white space before digits before letters, letters by alphabet regardless of
\* case; among strings equal so far, a lower-case letter before its upper case.
PrimaryWeight(c) ==
    IF c = " " THEN 0
    ELSE IF IsDigit(c) THEN 1 + DigitVal(c)
    ELSE IF IsUpper(c) \/ IsLower(c) THEN 11 + LetterRank(c)
    ELSE 99
CaseWeight(c) == IF IsUpper(c) THEN 1 ELSE 0

\* String.prototype.localeCompare
localeCompare(a, b) ==
    LET p == LexCompare([i \in DOMAIN a |-> PrimaryWeight(a[i])],
                        [i \in DOMAIN b |-> PrimaryWeight(b[i])])
    IN IF p # 0 THEN p
       ELSE LexCompare([i \in DOMAIN a |-> CaseWeight(a[i])],
                       [i \in DOMAIN b |-> CaseWeight(b[i])])

\* ------------------------------------------------------------ numbers
NaN == [nan |-> TRUE, v |-> 0]
Num(n) == [nan |-> FALSE, v |-> n]

RECURSIVE DigitsValue(_)
DigitsValue(ds) ==
    IF ds = <<>> THEN 0
    ELSE 10 * DigitsValue(SubSeq(ds, 1, Len(ds) - 1)) + DigitVal(ds[Len(ds)])

\* Number(string), in hundredths: an optional sign, digits, and an optional "."
\* with digits; a string of any other shape is NaN, and Number("") is 0.  A
\* third fraction digit is beyond the resolution of the model and never typed.
Number(s) ==
    LET neg  == Len(s) >= 1 /\ s[1] = "-"
        body == IF neg THEN Tail(s) ELSE s
        dots == {i \in DOMAIN body : body[i] = "."}
        dot  == IF dots = {} THEN Len(body) + 1 ELSE CHOOSE i \in dots : TRUE
        ip   == SubSeq(body, 1, dot - 1)
        fp   == SubSeq(body, dot + 1, Len(body))
        ok   == /\ Cardinality(dots) <= 1
                /\ \A i \in DOMAIN body : IsDigit(body[i]) \/ body[i] = "."
                /\ Len(ip) + Len(fp) >= 1
                /\ Len(fp) <= 2
        frac == IF Len(fp) = 0 THEN 0
                ELSE IF Len(fp) = 1 THEN 10 * DigitsValue(fp)
                ELSE DigitsValue(fp)
        mag  == 100 * DigitsValue(ip) + frac
    IN IF s = <<>> THEN Num(0)
       ELSE IF ~ok THEN NaN
       ELSE Num(IF neg THEN 0 - mag ELSE mag)

\* isNaN(x) for a string x (coerced with Number)
isNaN(s) == Number(s).nan

RECURSIVE NatToString(_)
NatToString(n) ==
    IF n < 10 THEN <<Digits[n + 1]>>
    ELSE NatToString(n \div 10) \o <<Digits[(n % 10) + 1]>>

\* String(number) for a non-negative number of hundredths: no trailing zeros
String(n) ==
    LET ip == n \div 100
        fp == n % 100
    IN IF fp = 0 THEN NatToString(ip)
       ELSE IF fp % 10 = 0 THEN NatToString(ip) \o <<".", Digits[(fp \div 10) + 1]>>
       ELSE NatToString(ip) \o <<".", Digits[(fp \div 10) + 1], Digits[(fp % 10) + 1]>>

\* Number.prototype.toFixed(2) of a non-negative number given in hundredths
toFixed2(h) ==
    NatToString(h \div 100) \o <<".", Digits[((h % 100) \div 10) + 1], Digits[(h % 10) + 1]>>


\* -------------------------------------------------------- the records
\* What an array slot can hold: a student object, nothing at all (a hole of a
\* sparse array), undefined, or null.
Hole  == [tag |-> "hole"]
Undef == [tag |-> "undefined"]
Null  == [tag |-> "null"]
IsRecord(e) == e.tag = "record"

\* Array access by 0-based index; a hole, like an index past the end, reads as
\* undefined.
At(arr, i) ==
    IF i < 0 \/ i >= Len(arr) THEN Undef
    ELSE IF arr[i + 1] = Hole THEN Undef
    ELSE arr[i + 1]

\* [...arr]: a copy whose holes have become undefined
Spread(arr) == [i \in DOMAIN arr |-> IF arr[i] = Hole THEN Undef ELSE arr[i]]

\* arr[i] = v on an array: in place within the length, else the array grows to
\* i + 1 and the slots in between are holes
ArraySet(arr, i, v) ==
    IF i < Len(arr) THEN [arr EXCEPT ![i + 1] = v]
    ELSE arr \o [k \in 1..(i - Len(arr)) |-> Hole] \o <<v>>

\* arr.filter((_, i) => i !== index): filter never visits a hole
RECURSIVE FilterOutIndex(_, _, _)
FilterOutIndex(arr, index, i) ==
    IF arr = <<>> THEN <<>>
    ELSE IF i = index \/ Head(arr) = Hole
         THEN FilterOutIndex(Tail(arr), index, i + 1)
         ELSE <<Head(arr)>> \o FilterOutIndex(Tail(arr), index, i + 1)

RECURSIVE Sum(_)
Sum(ns) == IF ns = <<>> THEN 0 ELSE Head(ns) + Sum(Tail(ns))

\* --------------------------------------------------------- derivation
total == 500

\* calculatePercentage: ((obtained / total) * 100).toFixed(2), a string
calculatePercentage(markNums) ==
    LET obtained == Sum(markNums)
    IN toFixed2((2 * 100 * obtained + total) \div (2 * total))

getDivisionMutant(percent) ==
    IF Number(percent).v > 60 * 100 THEN "First Division"
    ELSE IF Number(percent).v > 50 * 100 THEN "Second Division"
    ELSE IF Number(percent).v > 35 * 100 THEN "Pass"
    ELSE "Fail"
\* getDivision: its argument is the string toFixed built, compared as a number
getDivision(percent) ==
    IF Number(percent).v >= 60 * 100 THEN "First Division"
    ELSE IF Number(percent).v >= 50 * 100 THEN "Second Division"
    ELSE IF Number(percent).v >= 35 * 100 THEN "Pass"
    ELSE "Fail"

\* ------------------------------------------------------- initialState
NULL == -1
EmptyMarks == << <<>>, <<>>, <<>>, <<>>, <<>> >>
initialState ==
    [name |-> <<>>, age |-> <<>>, marks |-> EmptyMarks, students |-> <<>>,
     editIndex |-> NULL, searchTerm |-> <<>>, sortKey |-> "name"]

\* ------------------------------------------------------------ reducer
EditStudentMarksMutant(student) ==
    [i \in DOMAIN student.marks |-> NatToString(student.marks[i] \div 100)]
\* EDIT_STUDENT's student.marks.map(String)
EditStudentMarks(student) == [i \in DOMAIN student.marks |-> String(student.marks[i])]

AddStudentListMutant(list, payload) == <<payload>> \o Spread(list)
\* ADD_STUDENT's [...state.students, action.payload]
AddStudentList(list, payload) == Spread(list) \o <<payload>>

UpdateStudentListMutant(list, index, payload) ==
    IF index = NULL THEN Spread(list) ELSE Spread(list) \o <<payload>>
\* UPDATE_STUDENT's copy and updated[state.editIndex] = action.payload
\* (with editIndex null the assignment adds a property, not an element)
UpdateStudentList(list, index, payload) ==
    IF index = NULL THEN Spread(list) ELSE ArraySet(Spread(list), index, payload)

\* DELETE_STUDENT's state.students.filter((_, i) => i !== action.index)
DeleteStudentList(list, index) == FilterOutIndex(list, index, 0)

reducerMutant(state, action) ==
    CASE action.type = "SET_FIELD" ->
           [state EXCEPT ![action.field] = action.value, !.editIndex = NULL]
      [] action.type = "SET_MARK" ->
           [state EXCEPT !.marks = [state.marks EXCEPT ![action.index + 1] = action.value]]
      [] action.type = "SET_STUDENTS" ->
           [state EXCEPT !.students = action.payload]
      [] action.type = "ADD_STUDENT" ->
           [state EXCEPT !.students = AddStudentList(state.students, action.payload),
                         !.name = <<>>, !.age = <<>>, !.marks = EmptyMarks,
                         !.editIndex = NULL]
      [] action.type = "UPDATE_STUDENT" ->
           [state EXCEPT !.students =
                             UpdateStudentList(state.students, state.editIndex, action.payload),
                         !.name = <<>>, !.age = <<>>, !.marks = EmptyMarks,
                         !.editIndex = NULL]
      [] action.type = "DELETE_STUDENT" ->
           [state EXCEPT !.students = DeleteStudentList(state.students, action.index)]
      [] action.type = "EDIT_STUDENT" ->
           LET student == At(state.students, action.index)
           IN [state EXCEPT !.name = student.name,
                            !.age = student.age,
                            !.marks = EditStudentMarks(student),
                            !.editIndex = action.index]
      [] OTHER -> state
reducerDefaultMutant(state, action) ==
    CASE action.type = "SET_FIELD" ->
           [state EXCEPT ![action.field] = action.value]
      [] action.type = "SET_MARK" ->
           [state EXCEPT !.marks = [state.marks EXCEPT ![action.index + 1] = action.value]]
      [] action.type = "SET_STUDENTS" ->
           [state EXCEPT !.students = action.payload]
      [] action.type = "ADD_STUDENT" ->
           [state EXCEPT !.students = AddStudentList(state.students, action.payload),
                         !.name = <<>>, !.age = <<>>, !.marks = EmptyMarks,
                         !.editIndex = NULL]
      [] action.type = "UPDATE_STUDENT" ->
           [state EXCEPT !.students =
                             UpdateStudentList(state.students, state.editIndex, action.payload),
                         !.name = <<>>, !.age = <<>>, !.marks = EmptyMarks,
                         !.editIndex = NULL]
      [] action.type = "DELETE_STUDENT" ->
           [state EXCEPT !.students = DeleteStudentList(state.students, action.index)]
      [] action.type = "EDIT_STUDENT" ->
           LET student == At(state.students, action.index)
           IN [state EXCEPT !.name = student.name,
                            !.age = student.age,
                            !.marks = EditStudentMarks(student),
                            !.editIndex = action.index]
      [] OTHER -> initialState
reducer(state, action) ==
    CASE action.type = "SET_FIELD" ->
           [state EXCEPT ![action.field] = action.value]
      [] action.type = "SET_MARK" ->
           [state EXCEPT !.marks = [state.marks EXCEPT ![action.index + 1] = action.value]]
      [] action.type = "SET_STUDENTS" ->
           [state EXCEPT !.students = action.payload]
      [] action.type = "ADD_STUDENT" ->
           [state EXCEPT !.students = AddStudentList(state.students, action.payload),
                         !.name = <<>>, !.age = <<>>, !.marks = EmptyMarks,
                         !.editIndex = NULL]
      [] action.type = "UPDATE_STUDENT" ->
           [state EXCEPT !.students =
                             UpdateStudentList(state.students, state.editIndex, action.payload),
                         !.name = <<>>, !.age = <<>>, !.marks = EmptyMarks,
                         !.editIndex = NULL]
      [] action.type = "DELETE_STUDENT" ->
           [state EXCEPT !.students = DeleteStudentList(state.students, action.index)]
      [] action.type = "EDIT_STUDENT" ->
           LET student == At(state.students, action.index)
           IN [state EXCEPT !.name = student.name,
                            !.age = student.age,
                            !.marks = EditStudentMarks(student),
                            !.editIndex = action.index]
      [] OTHER -> state

\* EDIT_STUDENT reads student.name of students[action.index]: a TypeError when
\* that slot holds no object
reducerThrows(state, action) ==
    action.type = "EDIT_STUDENT" /\ ~IsRecord(At(state.students, action.index))

\* The action types whose case builds a new students array, so that the
\* dependency [state.students] of the save effect has changed
NewStudentsArray(action) ==
    action.type \in {"SET_STUDENTS", "ADD_STUDENT", "UPDATE_STUDENT", "DELETE_STUDENT"}

\* ------------------------------------------------------- handleSubmit
\* toast holds the message of the toast call the last event made, if any
NoToast == "none"

ValidateMutant(state) ==
    LET markNums == [i \in DOMAIN state.marks |-> Number(state.marks[i])]
    IN IF state.name = <<>> \/ state.age = <<>>
          \/ \E i \in DOMAIN state.marks : state.marks[i] = <<>>
       THEN "Please fill in all fields."
       ELSE IF ~nameRegexTest(trim(state.name))
       THEN "Name should contain only letters and spaces."
       ELSE IF isNaN(state.age) \/ Number(state.age).v < 0
               \/ Number(state.age).v > 100 * 100
       THEN "Enter a valid age between 1 and 100."
       ELSE IF \E i \in DOMAIN markNums :
                  markNums[i].nan \/ markNums[i].v < 0 \/ markNums[i].v > 100 * 100
       THEN "Marks should be numbers between 0 and 100."
       ELSE "valid"
\* The checks of handleSubmit in the order of its early returns: the message
\* of the first one that fails, or "valid"
Validate(state) ==
    LET markNums == [i \in DOMAIN state.marks |-> Number(state.marks[i])]
    IN IF state.name = <<>> \/ state.age = <<>>
          \/ \E i \in DOMAIN state.marks : state.marks[i] = <<>>
       THEN "Please fill in all fields."
       ELSE IF ~nameRegexTest(trim(state.name))
       THEN "Name should contain only letters and spaces."
       ELSE IF \E i \in DOMAIN markNums :
                  markNums[i].nan \/ markNums[i].v < 0 \/ markNums[i].v > 100 * 100
       THEN "Marks should be numbers between 0 and 100."
       ELSE IF isNaN(state.age) \/ Number(state.age).v <= 0
               \/ Number(state.age).v > 100 * 100
       THEN "Enter a valid age between 1 and 100."
       ELSE "valid"

\* studentData of handleSubmit
studentData(state) ==
    LET markNums   == [i \in DOMAIN state.marks |-> Number(state.marks[i]).v]
        percentage == calculatePercentage(markNums)
        division   == getDivision(percentage)
    IN [tag |-> "record", name |-> trim(state.name), age |-> state.age,
        marks |-> markNums, percentage |-> percentage, division |-> division]

\* The action handleSubmit dispatches once the draft is valid
SubmitDispatch(state) ==
    IF state.editIndex # NULL
    THEN [type |-> "UPDATE_STUDENT", payload |-> studentData(state)]
    ELSE [type |-> "ADD_STUDENT", payload |-> studentData(state)]

\* ------------------------------------------------------------- view
divisionOrder(d) ==
    CASE d = "First Division" -> 1
      [] d = "Second Division" -> 2
      [] d = "Pass" -> 3
      [] d = "Fail" -> 4

compareRowsMutant(a, b, key) ==
    IF key = "name" THEN localeCompare(a.name, b.name)
    ELSE IF key = "division" THEN divisionOrder(a.division) - divisionOrder(b.division)
    ELSE localeCompare(b.percentage, a.percentage)
\* The comparator handed to sort: negative when a goes first
compareRows(a, b, key) ==
    IF key = "name" THEN localeCompare(a.name, b.name)
    ELSE IF key = "division" THEN divisionOrder(a.division) - divisionOrder(b.division)
    ELSE Number(b.percentage).v - Number(a.percentage).v

\* Array.prototype.sort is stable: an element goes behind every element that
\* does not compare greater than it
RECURSIVE InsertRow(_, _, _)
InsertRow(sorted, r, key) ==
    IF sorted = <<>> THEN <<r>>
    ELSE IF compareRows(Head(sorted), r, key) > 0 THEN <<r>> \o sorted
    ELSE <<Head(sorted)>> \o InsertRow(Tail(sorted), r, key)

RECURSIVE SortRows(_, _)
SortRows(rs, key) ==
    IF rs = <<>> THEN <<>>
    ELSE InsertRow(SortRows(SubSeq(rs, 1, Len(rs) - 1), key), rs[Len(rs)], key)

withOriginalIndexMutant(list) ==
    [i \in DOMAIN list |->
        IF IsRecord(list[i])
        THEN [tag |-> "record", name |-> list[i].name, age |-> list[i].age,
              marks |-> list[i].marks, percentage |-> list[i].percentage,
              division |-> list[i].division, originalIndex |-> i]
        ELSE IF list[i] = Hole THEN [tag |-> "hole", originalIndex |-> i]
        ELSE [tag |-> "nameless", originalIndex |-> i]]
\* .map((student, originalIndex) => ({ ...student, originalIndex })): a hole
\* stays a hole; undefined and null spread to an object with no name
withOriginalIndex(list) ==
    [i \in DOMAIN list |->
        IF IsRecord(list[i])
        THEN [tag |-> "record", name |-> list[i].name, age |-> list[i].age,
              marks |-> list[i].marks, percentage |-> list[i].percentage,
              division |-> list[i].division, originalIndex |-> i - 1]
        ELSE IF list[i] = Hole THEN [tag |-> "hole", originalIndex |-> i - 1]
        ELSE [tag |-> "nameless", originalIndex |-> i - 1]]

keepRowMutant(row, term) == includes(row.name, term)
\* The filter's test: student.name.toLowerCase().includes(searchTerm.toLowerCase())
keepRow(row, term) == includes(toLowerCase(row.name), toLowerCase(term))

RECURSIVE FilterRows(_, _)
FilterRows(rs, term) ==
    IF rs = <<>> THEN <<>>
    ELSE IF Head(rs).tag = "record" /\ keepRow(Head(rs), term)
         THEN <<Head(rs)>> \o FilterRows(Tail(rs), term)
         ELSE FilterRows(Tail(rs), term)

\* The filter callback calls toLowerCase on student.name: a TypeError as soon
\* as one slot is undefined or null (filter skips a hole)
renderThrows(list) == \E i \in DOMAIN list : list[i] \in {Undef, Null}

filteredSortedData(list, term, key) ==
    SortRows(FilterRows(withOriginalIndex(list), term), key)

\* -------------------------------------------------------- persistence
\* JSON.stringify of the students array: an object per student; a hole and
\* undefined are both written as null
JSONstringify(list) ==
    [i \in DOMAIN list |->
        IF IsRecord(list[i])
        THEN [json |-> "object", name |-> list[i].name, age |-> list[i].age,
              marks |-> list[i].marks, percentage |-> list[i].percentage,
              division |-> list[i].division]
        ELSE [json |-> "null"]]

\* JSON.parse of such a text
JSONparse(text) ==
    [i \in DOMAIN text |->
        IF text[i].json = "object"
        THEN [tag |-> "record", name |-> text[i].name, age |-> text[i].age,
              marks |-> text[i].marks, percentage |-> text[i].percentage,
              division |-> text[i].division]
        ELSE Null]

\* localStorage: the item "students" is absent, or holds a text
NoItem == [has |-> FALSE, text |-> <<>>]
Item(text) == [has |-> TRUE, text |-> text]
NoDispatch == [has |-> FALSE, payload |-> <<>>]

\* ------------------------------------------------ the component's state
State ==
    [name |-> name, age |-> age, marks |-> marks, students |-> students,
     editIndex |-> editIndex, searchTerm |-> searchTerm, sortKey |-> sortKey]

\* What the user types or selects.  The name can be cleared again; the age and
\* the marks are empty only until typed, or after a submit has reset the draft.
NameInputs   == { <<>>, <<"b">>, <<"A", "b">> }
AgeInputs    == { <<"7">> }
MarkInputs   == { <<"5", "0">> }
SearchInputs == { <<>>, <<"B">>, <<"a">> }
SortKeys     == {"name", "division", "percentage"}
FieldInputs(field) ==
    CASE field = "name" -> NameInputs
      [] field = "age" -> AgeInputs
      [] field = "searchTerm" -> SearchInputs
      [] field = "sortKey" -> SortKeys

\* The save effect, run after a render whose state.students is a new array:
\* localStorage.setItem("students", JSON.stringify(state.students))
SaveEffectMutant(s, newArray) ==
    IF newArray /\ s.students # <<>> THEN Item(JSONstringify(s.students)) ELSE storage
SaveEffect(s, newArray) ==
    IF newArray THEN Item(JSONstringify(s.students)) ELSE storage

\* The state s replaces the component's state and the component renders: the
\* view is derived; when that throws, nothing is committed, no effect runs and
\* React unmounts the component
Commit(s, newArray) ==
    /\ name' = s.name
    /\ age' = s.age
    /\ marks' = s.marks
    /\ students' = s.students
    /\ editIndex' = s.editIndex
    /\ searchTerm' = s.searchTerm
    /\ sortKey' = s.sortKey
    /\ queued' = NoDispatch
    /\ IF renderThrows(s.students)
       THEN /\ pc' = "crashed"
            /\ rows' = <<>>
            /\ storage' = storage
       ELSE /\ pc' = "ready"
            /\ rows' = filteredSortedData(s.students, s.searchTerm, s.sortKey)
            /\ storage' = SaveEffect(s, newArray)

Dispatch(action) ==
    IF reducerThrows(State, action)
    THEN /\ pc' = "crashed"
         /\ rows' = <<>>
         /\ UNCHANGED <<name, age, marks, students, editIndex, searchTerm, sortKey,
                        storage, queued>>
    ELSE Commit(reducer(State, action), NewStudentsArray(action))

\* ------------------------------------------------------------ actions
\* onChange of the name, age, search and sort inputs
SetField ==
    /\ pc = "ready"
    /\ \E field \in {"name", "age", "searchTerm", "sortKey"} :
         \E value \in FieldInputs(field) :
            Dispatch([type |-> "SET_FIELD", field |-> field, value |-> value])
    /\ toast' = NoToast

\* onChange of a marks input
SetMark ==
    /\ pc = "ready"
    /\ \E index \in 0..4 : \E value \in MarkInputs :
          Dispatch([type |-> "SET_MARK", index |-> index, value |-> value])
    /\ toast' = NoToast

handleSubmitMutant ==
    /\ pc = "ready"
    /\ LET verdict == Validate(State)
       IN IF verdict # "valid"
          THEN /\ toast' = verdict
               /\ marks' = EmptyMarks
               /\ UNCHANGED <<name, age, students, editIndex, searchTerm,
                              sortKey, storage, queued, pc, rows>>
          ELSE /\ editIndex = NULL => Len(students) < MaxStudents
               /\ Dispatch(SubmitDispatch(State))
               /\ toast' = IF editIndex # NULL THEN "Student updated!"
                           ELSE "Student added!"
\* onSubmit of the form
handleSubmit ==
    /\ pc = "ready"
    /\ LET verdict == Validate(State)
       IN IF verdict # "valid"
          THEN /\ toast' = verdict
               /\ UNCHANGED <<name, age, marks, students, editIndex, searchTerm,
                              sortKey, storage, queued, pc, rows>>
          ELSE /\ editIndex = NULL => Len(students) < MaxStudents
               /\ Dispatch(SubmitDispatch(State))
               /\ toast' = IF editIndex # NULL THEN "Student updated!"
                           ELSE "Student added!"

\* onClick of the Edit button of row k of the table
ClickEditRow(k) ==
    /\ pc = "ready"
    /\ Dispatch([type |-> "EDIT_STUDENT", index |-> rows[k].originalIndex])
    /\ toast' = NoToast

ClickEdit == \E k \in DOMAIN rows : ClickEditRow(k)

\* onClick of the Delete button of row k of the table
ClickDeleteRow(k) ==
    /\ pc = "ready"
    /\ Dispatch([type |-> "DELETE_STUDENT", index |-> rows[k].originalIndex])
    /\ toast' = "Student deleted!"

ClickDelete == \E k \in DOMAIN rows : ClickDeleteRow(k)

\* The effects of the first render, in order: the load effect reads the item
\* and dispatches SET_STUDENTS when there is one; the save effect writes the
\* students of that render, the empty array
MountEffects ==
    /\ pc = "mounted"
    /\ queued' = IF storage.has
                 THEN [has |-> TRUE, payload |-> JSONparse(storage.text)]
                 ELSE NoDispatch
    /\ storage' = SaveEffect(State, TRUE)
    /\ pc' = IF storage.has THEN "loading" ELSE "ready"
    /\ toast' = NoToast
    /\ UNCHANGED <<name, age, marks, students, editIndex, searchTerm, sortKey, rows>>

\* The render the load effect's dispatch asked for, and its save effect
LoadCommit ==
    /\ pc = "loading"
    /\ Dispatch([type |-> "SET_STUDENTS", payload |-> queued.payload])
    /\ toast' = NoToast

\* The page is reloaded: a new component in initialState, the item kept
Restart ==
    /\ pc \in {"ready", "crashed"}
    /\ name' = initialState.name
    /\ age' = initialState.age
    /\ marks' = initialState.marks
    /\ students' = initialState.students
    /\ editIndex' = initialState.editIndex
    /\ searchTerm' = initialState.searchTerm
    /\ sortKey' = initialState.sortKey
    /\ queued' = NoDispatch
    /\ pc' = "mounted"
    /\ toast' = NoToast
    /\ rows' = <<>>
    /\ UNCHANGED storage

Init ==
    /\ name = initialState.name
    /\ age = initialState.age
    /\ marks = initialState.marks
    /\ students = initialState.students
    /\ editIndex = initialState.editIndex
    /\ searchTerm = initialState.searchTerm
    /\ sortKey = initialState.sortKey
    /\ storage = NoItem
    /\ queued = NoDispatch
    /\ pc = "mounted"
    /\ toast = NoToast
    /\ rows = <<>>

Next ==
    \/ SetField
    \/ SetMark
    \/ handleSubmit
    \/ ClickEdit
    \/ ClickDelete
    \/ MountEffects
    \/ LoadCommit
    \/ Restart

Spec == Init /\ [][Next]_vars

\* ----------------------------------- the form, over a range of drafts
\* handleSubmit is a function of the draft, the list and editIndex.  SpecForm
\* starts it from drafts the inputs can hold, over lists of records that
\* earlier submits built, in add mode and in edit mode.
Str50 == <<"5", "0">>
RecordOf(n) ==
    studentData([name |-> n, age |-> <<"7">>,
                 marks |-> <<Str50, Str50, Str50, Str50, Str50>>])
FormModes ==
    { [students |-> <<>>, editIndex |-> NULL],
      [students |-> <<RecordOf(<<"b">>)>>, editIndex |-> NULL],
      [students |-> <<RecordOf(<<"b">>)>>, editIndex |-> 0],
      [students |-> <<RecordOf(<<"A", "b">>), RecordOf(<<"b">>)>>, editIndex |-> 1] }

\* Drafts for the derivation: a valid name and age, marks on and around the
\* division thresholds
FirstMarks ==
    { <<"0">>, <<"3", "4", ".", "9", "5">>, <<"3", "5">>,
      <<"4", "9", ".", "9", "5">>, Str50, <<"5", "9", ".", "9", "5">>,
      <<"5", "9", ".", "9", "6">>, <<"5", "9", ".", "9", "8">>, <<"6", "0">>,
      <<"1", "0", "0">> }
OtherMarks == { <<"0">>, <<"3", "5">>, Str50, <<"6", "0">>, <<"1", "0", "0">> }
DeriveDrafts ==
    { [name |-> <<"b">>, age |-> <<"7">>, marks |-> <<m1>> \o ms] :
        m1 \in FirstMarks, ms \in [1..4 -> OtherMarks] }

\* Drafts for the validation: every kind of name and age, and marks that are
\* "50" but for at most two of them
FormNames ==
    { <<>>, <<"b">>, <<" ", "A", "b", " ">>, <<"J", "o", "h", "n", "3">>, <<" ">> }
FormAges ==
    { <<>>, <<"7">>, <<"0">>, <<"-", "1">>, <<"1", "0", "0">>,
      <<"1", "0", "0", ".", "5">>, <<"0", ".", "5">> }
FormMarks ==
    { <<>>, Str50, <<"0">>, <<"1", "0", "0">>, <<"1", "0", "1">>, <<"-", "1">>,
      <<"1", "0", "0", ".", "0", "1">> }
FormMarkVectors ==
    { m \in [1..5 -> FormMarks] : Cardinality({i \in 1..5 : m[i] # Str50}) <= 2 }
ValidateDrafts ==
    { [name |-> n, age |-> a, marks |-> m] :
        n \in FormNames, a \in FormAges, m \in FormMarkVectors }

InitForm ==
    /\ \E d \in DeriveDrafts \cup ValidateDrafts :
          /\ name = d.name
          /\ age = d.age
          /\ marks = d.marks
    /\ \E mode \in FormModes :
          /\ students = mode.students
          /\ editIndex = mode.editIndex
    /\ searchTerm = initialState.searchTerm
    /\ sortKey = initialState.sortKey
    /\ storage = Item(JSONstringify(students))
    /\ queued = NoDispatch
    /\ pc = "ready"
    /\ toast = NoToast
    /\ rows = filteredSortedData(students, searchTerm, sortKey)

NextForm == handleSubmit

SpecForm == InitForm /\ [][NextForm]_vars

\* ----------------------------------- the view, over a range of lists
\* filteredSortedData is a function of the list, the search term and the sort
\* key.  SpecView starts from lists of records that submits build and lets the
\* user search, sort, edit and delete.
AllMarks(m) == <<m, m, m, m, m>>
ViewRecords ==
    { studentData([name |-> <<"b">>, age |-> <<"7">>, marks |-> AllMarks(<<"1", "0", "0">>)]),
      studentData([name |-> <<"B">>, age |-> <<"7">>, marks |-> AllMarks(<<"9">>)]),
      studentData([name |-> <<"A", "b">>, age |-> <<"7">>, marks |-> AllMarks(<<"4", "0">>)]) }
ViewLists == UNION { [1..n -> ViewRecords] : n \in 0..MaxViewStudents }

InitView ==
    /\ name = initialState.name
    /\ age = initialState.age
    /\ marks = initialState.marks
    /\ students \in ViewLists
    /\ editIndex = initialState.editIndex
    /\ searchTerm = initialState.searchTerm
    /\ sortKey = initialState.sortKey
    /\ storage = Item(JSONstringify(students))
    /\ queued = NoDispatch
    /\ pc = "ready"
    /\ toast = NoToast
    /\ rows = filteredSortedData(students, searchTerm, sortKey)

NextView ==
    \/ SetField
    \/ ClickEdit
    \/ ClickDelete

SpecView == InitView /\ [][NextView]_vars

\* --------------------------- edit and submit, over a range of records
\* SpecEdit starts in add mode from drafts the inputs can hold, over an empty
\* list or a list of one record; a submit adds the record of the draft, the
\* Edit button of a row loads a record, and the next submit updates it.
EditDrafts ==
    DeriveDrafts \cup
    { [name |-> n, age |-> a, marks |-> <<Str50, Str50, Str50, Str50, Str50>>] :
        n \in FormNames, a \in FormAges }
EditLists == { <<>>, <<RecordOf(<<"b">>)>> }

InitEdit ==
    /\ \E d \in EditDrafts :
          /\ name = d.name
          /\ age = d.age
          /\ marks = d.marks
    /\ students \in EditLists
    /\ editIndex = initialState.editIndex
    /\ searchTerm = initialState.searchTerm
    /\ sortKey = initialState.sortKey
    /\ storage = Item(JSONstringify(students))
    /\ queued = NoDispatch
    /\ pc = "ready"
    /\ toast = NoToast
    /\ rows = filteredSortedData(students, searchTerm, sortKey)

NextEdit ==
    \/ handleSubmit
    \/ ClickEdit

SpecEdit == InitEdit /\ [][NextEdit]_vars

\* ------------------------------- the reducer's default, over any state
\* No handler of the component dispatches an action of another type than the
\* seven the reducer names.  SpecOther hands such actions to the reducer, from
\* the states a delete leaves behind: any list, any draft, editIndex null or
\* left over from an earlier edit.
OtherActions ==
    { [type |-> "RESET"],
      [type |-> "set_field", field |-> "name", value |-> <<"b">>],
      [type |-> "REMOVE_STUDENT", index |-> 0] }
OtherMarksDrafts == { EmptyMarks, <<Str50, Str50, Str50, Str50, Str50>> }

DispatchOther ==
    /\ pc = "ready"
    /\ \E action \in OtherActions : Dispatch(action)
    /\ toast' = NoToast

InitOther ==
    /\ name \in NameInputs
    /\ age \in AgeInputs
    /\ marks \in OtherMarksDrafts
    /\ students \in ViewLists
    /\ editIndex \in {NULL, 0, 1}
    /\ searchTerm \in SearchInputs
    /\ sortKey \in SortKeys
    /\ storage = Item(JSONstringify(students))
    /\ queued = NoDispatch
    /\ pc = "ready"
    /\ toast = "Student deleted!"
    /\ rows = filteredSortedData(students, searchTerm, sortKey)

NextOther == DispatchOther

SpecOther == InitOther /\ [][NextOther]_vars

\* ------------------------------------------------------------ claims
\* What a reader of students[i] sees before and after a step
SameEntry(i) == At(students', i) = At(students, i)
DraftIsEmpty == name = <<>> /\ age = <<>> /\ marks = EmptyMarks
ValidSubmit == handleSubmit /\ Validate(State) = "valid"

\* C1: a submit of a valid draft while editIndex is null appends the new
\* record: the list is one longer, every earlier position reads as before,
\* the last position holds the record, and the draft and editIndex are reset.
C1_AddAppends ==
    [][(ValidSubmit /\ editIndex = NULL) =>
          /\ Len(students') = Len(students) + 1
          /\ \A i \in 0..(Len(students) - 1) : SameEntry(i)
          /\ At(students', Len(students)) = studentData(State)
          /\ DraftIsEmpty'
          /\ editIndex' = NULL]_vars

\* C1's case: a record was just added behind a different one
C1_Witness ==
    /\ toast = "Student added!"
    /\ Len(students) >= 2
    /\ At(students, 0) # At(students, Len(students) - 1)

\* C2: EDIT_STUDENT(i) at a row's index leaves the list alone and sets
\* editIndex to that valid index; the UPDATE_STUDENT a valid submit then
\* dispatches, editIndex still an index of the list, keeps the length, puts
\* the record at editIndex, leaves every other position reading as before,
\* and resets the draft and editIndex.
C2_EditThenUpdate ==
    [][/\ ClickEdit =>
             /\ students' = students
             /\ editIndex' \in 0..(Len(students) - 1)
       /\ (ValidSubmit /\ editIndex \in 0..(Len(students) - 1)) =>
             /\ Len(students') = Len(students)
             /\ At(students', editIndex) = studentData(State)
             /\ \A i \in 0..(Len(students) - 1) : i # editIndex => SameEntry(i)
             /\ DraftIsEmpty'
             /\ editIndex' = NULL]_vars

\* C2's case: an update just replaced one of two different records
C2_Witness ==
    /\ toast = "Student updated!"
    /\ Len(students) = 2
    /\ At(students, 0) # At(students, 1)
    /\ IsRecord(At(students, 0)) /\ IsRecord(At(students, 1))

\* The fields a row displays are those of the list entry e
Displays(row, e) ==
    /\ IsRecord(e)
    /\ row.name = e.name /\ row.age = e.age /\ row.marks = e.marks
    /\ row.percentage = e.percentage /\ row.division = e.division

\* C3: DELETE_STUDENT(i) from a row's Delete button makes the list one
\* shorter: the positions before i read as before, the positions from i on
\* read as the old next position; the view then has one row less, and every
\* row carries a valid originalIndex of the new list, whose entry it displays.
C3_DeleteRemovesOne ==
    [][\A k \in DOMAIN rows :
          ClickDeleteRow(k) =>
             LET i == rows[k].originalIndex
                 n == Len(students)
             IN /\ Len(students') = n - 1
                /\ \A j \in 0..(n - 2) :
                      At(students', j) = At(students, IF j < i THEN j ELSE j + 1)
                /\ Len(rows') = Len(rows) - 1
                /\ \A r \in DOMAIN rows' :
                      /\ rows'[r].originalIndex \in 0..(Len(students') - 1)
                      /\ Displays(rows'[r], At(students', rows'[r].originalIndex))]_vars

\* C7: once the effects of a commit have run (the mount, the load, every add,
\* update and delete), the item "students" holds the serialization of the
\* whole current list.
C7_StorageMirrorsStudents ==
    pc \in {"loading", "ready"} => storage = Item(JSONstringify(students))

\* C7's case: a delete emptied a list that had been stored
C7_Witness ==
    /\ pc = "ready"
    /\ toast = "Student deleted!"
    /\ students = <<>>
    /\ storage = Item(<<>>)

\* C8: a restart brings the list back: what the item holds when the page is
\* reloaded deserializes to the list of that moment; the load effect
\* dispatches it (or, with no item, the list starts empty); the render that
\* follows ends with that list in the state and in the item.
C8_RoundTripAcrossRestart ==
    [][/\ (Restart /\ pc = "ready") =>
             /\ storage.has
             /\ JSONparse(storage.text) = students
       /\ MountEffects =>
             IF storage.has
             THEN /\ queued' = [has |-> TRUE, payload |-> JSONparse(storage.text)]
                  /\ pc' = "loading"
             ELSE /\ students' = <<>>
                  /\ pc' = "ready"
       /\ LoadCommit =>
             /\ students' = queued.payload
             /\ pc' = "ready"
             /\ storage' = Item(JSONstringify(students'))]_vars

\* The record a valid submit has just put into the list
Submitted == At(students', IF editIndex = NULL THEN Len(students) ELSE editIndex)
MarkSum == Sum([i \in DOMAIN marks |-> Number(marks[i]).v])
Abs(x) == IF x < 0 THEN 0 - x ELSE x

\* C4: the record a valid submit builds carries the five marks as numbers, a
\* percentage written with two decimals that is sum(marks)/500*100 rounded to
\* the nearest hundredth, and the division of that percentage: First Division
\* from 60, Second Division from 50, Pass from 35, Fail below.
C4_PercentageAndDivision ==
    [][ValidSubmit =>
          LET r == Submitted
              p == Number(r.percentage).v
              n == Len(r.percentage)
          IN /\ r.marks = [i \in DOMAIN marks |-> Number(marks[i]).v]
             /\ n >= 4 /\ r.percentage[n - 2] = "."
             /\ \A i \in DOMAIN r.percentage : i # n - 2 => IsDigit(r.percentage[i])
             /\ 2 * Abs(5 * p - MarkSum) <= 5
             /\ r.division = IF p >= 6000 THEN "First Division"
                             ELSE IF p >= 5000 THEN "Second Division"
                             ELSE IF p >= 3500 THEN "Pass"
                             ELSE "Fail"]_vars

\* C4's case: a submit built a record on a boundary: 59.99 is Second Division
C4_Witness ==
    /\ toast = "Student added!"
    /\ \E i \in DOMAIN students :
          /\ IsRecord(students[i])
          /\ students[i].percentage = <<"5", "9", ".", "9", "9">>
          /\ students[i].division = "Second Division"

\* The four rules of the validation, as the specification words them
IsBlank(s) == s = <<>>
MissingFields == IsBlank(name) \/ IsBlank(age) \/ \E i \in DOMAIN marks : IsBlank(marks[i])
InvalidName ==
    LET t == trim(name)
    IN t = <<>> \/ \E i \in DOMAIN t : t[i] \notin UpperSet \cup LowerSet \cup {" "}
OutOfRange(s, low, high) ==
    Number(s).nan \/ Number(s).v < low \/ Number(s).v > high
InvalidMarks == \E i \in DOMAIN marks : OutOfRange(marks[i], 0, 10000)
InvalidAge == OutOfRange(age, 1, 10000)
Rejected == MissingFields \/ InvalidName \/ InvalidMarks \/ InvalidAge

\* C5: a submit reports the first violated rule, in the order missing
\* fields, invalid name, invalid marks, invalid age, and accepts the draft
\* only when no rule is violated.
C5_FirstViolatedRule ==
    [][handleSubmit =>
          toast' = IF MissingFields THEN "Please fill in all fields."
                   ELSE IF InvalidName THEN "Name should contain only letters and spaces."
                   ELSE IF InvalidMarks THEN "Marks should be numbers between 0 and 100."
                   ELSE IF InvalidAge THEN "Enter a valid age between 1 and 100."
                   ELSE IF editIndex # NULL THEN "Student updated!"
                   ELSE "Student added!"]_vars

\* C5's case: the last rule was reached and it rejected the age "0"
C5_Witness ==
    /\ toast = "Enter a valid age between 1 and 100."
    /\ age = <<"0">>

\* C6: a submit of a draft that a rule rejects changes nothing but the toast.
C6_RejectedSubmitChangesNothing ==
    [][(handleSubmit /\ Rejected) =>
          UNCHANGED <<name, age, marks, students, editIndex, searchTerm, sortKey,
                      storage>>]_vars

\* C6's case: a submit was rejected in edit mode, over a stored list
C6_Witness ==
    /\ toast = "Marks should be numbers between 0 and 100."
    /\ editIndex # NULL
    /\ students # <<>>
    /\ storage = Item(JSONstringify(students))

\* c and d are the same character, or the same letter in different case
SameIgnoringCase(c, d) ==
    \/ c = d
    \/ /\ c \in UpperSet \cup LowerSet
       /\ d \in UpperSet \cup LowerSet
       /\ LetterRank(c) = LetterRank(d)
\* term occurs in n as a substring, case ignored
ContainsIgnoringCase(n, term) ==
    \E off \in 0..(Len(n) - Len(term)) :
        \A j \in 1..Len(term) : SameIgnoringCase(n[off + j], term[j])
RowsOf(i) == {k \in DOMAIN rows : rows[k].originalIndex = i}

\* C9: the displayed rows are exactly the records whose name contains the
\* search term, case ignored: one row for each such record, none for any
\* other, each row displaying the record at its originalIndex; with an empty
\* search term every record has its row.
C9_RowsAreTheMatches ==
    pc = "ready" =>
       /\ \A i \in 0..(Len(students) - 1) :
             IsRecord(At(students, i)) =>
                Cardinality(RowsOf(i)) =
                   IF ContainsIgnoringCase(At(students, i).name, searchTerm) THEN 1 ELSE 0
       /\ \A k \in DOMAIN rows :
             /\ rows[k].originalIndex \in 0..(Len(students) - 1)
             /\ Displays(rows[k], At(students, rows[k].originalIndex))
       /\ searchTerm = <<>> =>
             Len(rows) = Cardinality({i \in DOMAIN students : IsRecord(students[i])})

\* C9's case: a lower-case search term keeps the records whose name has the
\* letter in upper case and drops the others
C9_Witness ==
    /\ pc = "ready"
    /\ searchTerm = <<"a">>
    /\ Len(rows) >= 1
    /\ Len(rows) < Len(students)
    /\ \A k \in DOMAIN rows : rows[k].name = <<"A", "b">>

DivisionRanks == <<"First Division", "Second Division", "Pass", "Fail">>
DivisionRank(d) == CHOOSE r \in DOMAIN DivisionRanks : DivisionRanks[r] = d
InViewOrder(a, b) ==
    IF sortKey = "name" THEN localeCompare(a.name, b.name) <= 0
    ELSE IF sortKey = "division" THEN DivisionRank(a.division) <= DivisionRank(b.division)
    ELSE Number(a.percentage).v >= Number(b.percentage).v

\* C10: the displayed rows are in the order of the active sort key: names
\* ascending in the collation order, divisions ascending by the rank First,
\* Second, Pass, Fail, percentages descending as numbers; and a change of the
\* search term or sort key, which derives the view anew, leaves the students
\* list and the stored item as they were.
C10_RowsAreSorted ==
    /\ [](pc = "ready" =>
             \A k \in 1..(Len(rows) - 1) : InViewOrder(rows[k], rows[k + 1]))
    /\ [][SetField => (students' = students /\ storage' = storage)]_vars

\* C10's case: sorting by percentage moved a later record with a higher
\* percentage in front of an earlier one
C10_Witness ==
    /\ pc = "ready"
    /\ sortKey = "percentage"
    /\ Len(rows) >= 2
    /\ rows[1].originalIndex > rows[2].originalIndex
    /\ Number(rows[1].percentage).v > Number(rows[2].percentage).v

\* The records of a list in list order, and those at the positions other than i
RECURSIVE RecordsExcept(_, _, _)
RecordsExcept(list, i, from) ==
    IF list = <<>> THEN <<>>
    ELSE IF IsRecord(Head(list)) /\ from # i
         THEN <<Head(list)>> \o RecordsExcept(Tail(list), i, from + 1)
         ELSE RecordsExcept(Tail(list), i, from + 1)
Records(list) == RecordsExcept(list, NULL, 0)
DisplayStrings(ms) == [i \in DOMAIN ms |-> String(ms[i])]

\* C11: whatever the search term and the sort key, every displayed row
\* carries as originalIndex the position in students of the record it
\* displays; the Edit button of a row loads that record into the draft and
\* sets editIndex to its position, leaving the list alone; the Delete button
\* of a row removes that record from the list and no other record.
C11_RowActsOnItsRecord ==
    /\ [](pc = "ready" =>
             \A k \in DOMAIN rows :
                /\ rows[k].originalIndex \in 0..(Len(students) - 1)
                /\ Displays(rows[k], At(students, rows[k].originalIndex)))
    /\ [][\A k \in DOMAIN rows :
             /\ ClickEditRow(k) =>
                   /\ name' = rows[k].name
                   /\ age' = rows[k].age
                   /\ marks' = DisplayStrings(rows[k].marks)
                   /\ editIndex' = rows[k].originalIndex
                   /\ students' = students
             /\ ClickDeleteRow(k) =>
                   /\ Records(students') =
                         RecordsExcept(students, rows[k].originalIndex, 0)
                   /\ Len(Records(students')) = Len(Records(students)) - 1]_vars

\* C11's case: under a search term that hides the records in front of it, the
\* Edit button of a row loaded the record of that row, whose position in the
\* list is not the row's position in the table
C11_Witness ==
    /\ pc = "ready"
    /\ searchTerm = <<"a">>
    /\ editIndex # NULL
    /\ \E k \in DOMAIN rows :
          /\ rows[k].originalIndex = editIndex
          /\ k - 1 # editIndex
          /\ name = rows[k].name
          /\ age = rows[k].age

\* A list entry that is a record with five marks, each a number from 0 to 100
HasFiveMarks(e) ==
    /\ IsRecord(e)
    /\ Len(e.marks) = 5
    /\ \A j \in 1..5 : e.marks[j] \in 0..(100 * 100)

\* C12: starting from an empty store, every entry of students is a record
\* whose marks are exactly five numbers, each between 0 and 100.
C12_EntriesHaveFiveMarks ==
    \A i \in 0..(Len(students) - 1) : HasFiveMarks(At(students, i))

\* A list entry whose percentage and division are those of its own marks
DerivedFromOwnMarks(e) ==
    /\ IsRecord(e)
    /\ e.percentage = calculatePercentage(e.marks)
    /\ e.division = getDivision(e.percentage)

\* C13: starting from an empty store, every entry of students has the
\* percentage and the division that are derived from that entry's own marks.
C13_EntriesAreConsistent ==
    \A i \in 0..(Len(students) - 1) : DerivedFromOwnMarks(At(students, i))

\* C14: editIndex is null or an index of the current students list, also
\* after records were deleted while an edit was pending.
C14_EditIndexIsValid ==
    editIndex = NULL \/ editIndex \in 0..(Len(students) - 1)

\* C15: whatever happened since EDIT_STUDENT set editIndex, deletes included,
\* the UPDATE_STUDENT of the next valid submit writes at a position inside
\* the list and leaves the length of the list unchanged.
C15_UpdateStaysInsideList ==
    [][(ValidSubmit /\ editIndex # NULL) =>
          /\ editIndex \in 0..(Len(students) - 1)
          /\ Len(students') = Len(students)]_vars

\* C16: the Edit button of a row followed at once by a submit, the draft as
\* EDIT_STUDENT loaded it: the edit leaves the list alone and loads a draft
\* from which studentData rebuilds the record of that index; the submit
\* passes the validation, and the list after it equals the list before.
C16_EditThenSubmitRebuilds ==
    [][/\ ClickEdit =>
             /\ students' = students
             /\ studentData([name |-> name', age |-> age', marks |-> marks']) =
                   At(students, editIndex')
       /\ (handleSubmit /\ editIndex # NULL) =>
             /\ toast' = "Student updated!"
             /\ students' = students
             /\ editIndex' = NULL]_vars

\* C16's case: the only record of the list, with a fractional mark and a name
\* that was typed with spaces around it, has been loaded and submitted again
C16_Witness ==
    /\ toast = "Student updated!"
    /\ Len(students) = 1
    /\ \/ At(students, 0).marks[1] = 3495
       \/ At(students, 0).name = <<"A", "b">>

\* C17: across UI actions and restarts no dispatched action and no view
\* derivation fails: the reducer never reads a field of an entry that is not
\* a record, and the render never throws on an entry of the list.
C17_NothingThrows ==
    pc # "crashed"

\* A step that leaves the draft name, age and marks, the list, editIndex, the
\* search term, the sort key and the stored item as they were, but for the one
\* field, or the one mark (1..5), that is named
OnlyChanges(field, mark) ==
    /\ field = "name" \/ name' = name
    /\ field = "age" \/ age' = age
    /\ field = "searchTerm" \/ searchTerm' = searchTerm
    /\ field = "sortKey" \/ sortKey' = sortKey
    /\ Len(marks') = 5
    /\ \A j \in 1..5 : j # mark => marks'[j] = marks[j]
    /\ UNCHANGED <<students, editIndex, storage>>

\* C18: SET_FIELD on name, age, searchTerm or sortKey writes the value into
\* that field and changes no other part of the state nor the stored item;
\* SET_MARK(index, value) with index in 0..4 writes the value at that index
\* of the draft marks, which stay five, and changes nothing else.
C18_SetFieldAndSetMarkFrame ==
    /\ [](\A field \in {"name", "age", "searchTerm", "sortKey"} :
             \A value \in FieldInputs(field) :
                reducer(State, [type |-> "SET_FIELD", field |-> field, value |-> value])
                   = [State EXCEPT ![field] = value])
    /\ [](\A index \in 0..4 : \A value \in MarkInputs :
             /\ Len(marks) = 5
             /\ reducer(State, [type |-> "SET_MARK", index |-> index, value |-> value])
                   = [State EXCEPT !.marks[index + 1] = value])
    /\ [][SetField => \E field \in {"name", "age", "searchTerm", "sortKey"} :
                         OnlyChanges(field, 0)]_vars
    /\ [][SetMark => \E index \in 0..4 : OnlyChanges("none", index + 1)]_vars

\* C18's case: over a stored list, one mark of the empty draft was typed and
\* the search term was changed
C18_Witness ==
    /\ pc = "ready"
    /\ toast = NoToast
    /\ searchTerm = <<"a">>
    /\ students # <<>>
    /\ storage = Item(JSONstringify(students))
    /\ Cardinality({i \in 1..5 : marks[i] # <<>>}) = 1

\* C19: an action whose type is none of the seven the reducer names leaves
\* the whole state as it is: the reducer returns the state it was given, and
\* the dispatch changes neither the state nor the view nor the stored item.
C19_OtherActionsChangeNothing ==
    /\ [](\A action \in OtherActions : reducer(State, action) = State)
    /\ [][DispatchOther =>
             UNCHANGED <<name, age, marks, students, editIndex, searchTerm, sortKey,
                         storage, rows, pc>>]_vars

\* C19's case: such an action went through the reducer while the list held
\* records, an edit was pending and a name and a search term were typed
C19_Witness ==
    /\ pc = "ready"
    /\ toast = NoToast
    /\ Len(students) >= 2
    /\ editIndex # NULL
    /\ name # <<>>
    /\ searchTerm # <<>>
    /\ Len(rows) >= 1

=============================================================================
